---- MODULE Spec2Model ----
(***************************************************************************)
(* A model of src/claims.go: the typed accessors of a JWT claim set.       *)
(*                                                                         *)
(* Claims is a Go map[string]interface{}.  A claim value is modelled as a  *)
(* record tagged with its dynamic Go type ("kind").  Text is a sequence of *)
(* one-character strings; an integer is a sign and a sequence of decimal   *)
(* digits, so that the 64-bit boundaries are exact.                        *)
(***************************************************************************)
EXTENDS Integers, Sequences, FiniteSets, TLC

VARIABLES
    claims,     \* the claim set: a function from the present keys to values
    claims0,    \* the claim set as the decoder produced it
    last        \* the last accessor call: [op, name, result]

vars == <<claims, claims0, last>>

(***************************************************************************)
(* Bounds of the model.                                                    *)
(***************************************************************************)
MaxLen == 3        \* longest generated text (in characters)
MaxElems == 3      \* longest generated []interface{} value
MaxSmall == 9      \* generated small integers i and floats q/4: i, q in -MaxSmall..MaxSmall

(***************************************************************************)
(* Text.                                                                   *)
(***************************************************************************)
DigitChars == <<"0", "1", "2", "3", "4", "5", "6", "7", "8", "9">>

IsDigitChar(c) == \E d \in 1..10 : DigitChars[d] = c

DigitOf(c) == (CHOOSE d \in 1..10 : DigitChars[d] = c) - 1

RECURSIVE SeqsUpTo(_, _)
SeqsUpTo(S, n) ==
    IF n = 0 THEN {<<>>}
    ELSE LET shorter == SeqsUpTo(S, n - 1)
         IN  shorter \cup {Append(s, c) : s \in shorter, c \in S}

RECURSIVE Join(_, _)
\* The elements of a sequence of texts, separated by sep.
Join(ts, sep) ==
    IF Len(ts) = 0 THEN <<>>
    ELSE IF Len(ts) = 1 THEN ts[1]
    ELSE ts[1] \o sep \o Join(Tail(ts), sep)

(***************************************************************************)
(* Integers: [neg, mag], mag the decimal digits, most significant first,   *)
(* without leading zeros; zero is [neg |-> FALSE, mag |-> <<0>>].          *)
(***************************************************************************)
Zero == [neg |-> FALSE, mag |-> <<0>>]

RECURSIVE Strip(_)
Strip(m) == IF Len(m) > 1 /\ m[1] = 0 THEN Strip(Tail(m)) ELSE m

RECURSIVE NatMag(_)
NatMag(n) == IF n < 10 THEN <<n>> ELSE Append(NatMag(n \div 10), n % 10)

FromInt(i) == [neg |-> i < 0, mag |-> NatMag(IF i < 0 THEN -i ELSE i)]

MkNum(neg, m) ==
    LET s == Strip(m) IN [neg |-> neg /\ s # <<0>>, mag |-> s]

RECURSIVE LexLess(_, _)
LexLess(a, b) ==
    /\ Len(a) > 0
    /\ \/ a[1] < b[1]
       \/ a[1] = b[1] /\ LexLess(Tail(a), Tail(b))

\* a < b for canonical magnitudes.
MagLess(a, b) ==
    \/ Len(a) < Len(b)
    \/ Len(a) = Len(b) /\ LexLess(a, b)

Pad(m, n) == [i \in 1..n |-> IF i <= n - Len(m) THEN 0 ELSE m[i - (n - Len(m))]]

RECURSIVE SubFrom(_, _, _, _)
SubFrom(a, b, i, borrow) ==
    IF i = 0 THEN <<>>
    ELSE LET d == a[i] - b[i] - borrow
         IN  IF d < 0 THEN Append(SubFrom(a, b, i - 1, 1), d + 10)
                      ELSE Append(SubFrom(a, b, i - 1, 0), d)

\* a - b for canonical magnitudes with b <= a.
MagSub(a, b) == Strip(SubFrom(a, Pad(b, Len(a)), Len(a), 0))

NumPositive(n) == ~n.neg /\ n.mag # <<0>>

\* The limits of Go's 64-bit integers.
MaxInt64Mag  == <<9,2,2,3,3,7,2,0,3,6,8,5,4,7,7,5,8,0,7>>       \* 1<<63 - 1
Two63Mag     == <<9,2,2,3,3,7,2,0,3,6,8,5,4,7,7,5,8,0,8>>       \* 1<<63
MaxUint64Mag == <<1,8,4,4,6,7,4,4,0,7,3,7,0,9,5,5,1,6,1,5>>     \* 1<<64 - 1
Two64Mag     == <<1,8,4,4,6,7,4,4,0,7,3,7,0,9,5,5,1,6,1,6>>     \* 1<<64
\* strconv.ParseUint's cutoff for base 10: maxUint64/10 + 1.
CutoffMag    == <<1,8,4,4,6,7,4,4,0,7,3,7,0,9,5,5,1,6,2>>

MaxInt64 == [neg |-> FALSE, mag |-> MaxInt64Mag]
MinInt64 == [neg |-> TRUE, mag |-> Two63Mag]

\* The Go conversion int64(x) of an unsigned value: x modulo 2^64, read as
\* a two's complement number.
Int64OfUnsigned(n) ==
    IF MagLess(MaxInt64Mag, n.mag)
    THEN [neg |-> TRUE, mag |-> MagSub(Two64Mag, n.mag)]
    ELSE n

\* The Go conversion int64(x) of a signed value of at most 64 bits.
Int64OfSigned(n) == n

\* The Go conversion int64(f) of a float f = q/4: the fraction is discarded
\* (truncation toward zero).  The floats of the model are finite and
\* within the range of int64, where the conversion is defined.
Int64OfFloat(q) ==
    IF q < 0 THEN MkNum(TRUE, NatMag((-q) \div 4)) ELSE FromInt(q \div 4)

(***************************************************************************)
(* strconv.FormatInt(n, 10), which is also fmt's %v of an integer.         *)
(***************************************************************************)
FormatInt(n) ==
    (IF n.neg THEN <<"-">> ELSE <<>>)
        \o [i \in 1..Len(n.mag) |-> DigitChars[n.mag[i] + 1]]

(***************************************************************************)
(* strconv.ParseUint(s, 10, 64): the digits are accumulated left to right; *)
(* err is "nil", "syntax" or "range".                                      *)
(***************************************************************************)
RECURSIVE ParseUintFrom(_, _, _)
ParseUintFrom(s, i, n) ==
    IF i > Len(s) THEN [err |-> "nil", un |-> n]
    ELSE IF ~IsDigitChar(s[i]) THEN [err |-> "syntax", un |-> <<0>>]
    ELSE IF ~MagLess(n, CutoffMag) THEN [err |-> "range", un |-> MaxUint64Mag]
    ELSE LET n1 == Strip(Append(n, DigitOf(s[i])))
         IN  IF MagLess(MaxUint64Mag, n1)
             THEN [err |-> "range", un |-> MaxUint64Mag]
             ELSE ParseUintFrom(s, i + 1, n1)

ParseUint(s) ==
    IF Len(s) = 0 THEN [err |-> "syntax", un |-> <<0>>]
    ELSE ParseUintFrom(s, 1, <<0>>)

\* A faulty variant of ParseInt: the negative range check is as strict as the
\* positive one, so the minimum value is refused.
ParseIntSymmetric(s) ==
    IF Len(s) = 0 THEN [ok |-> FALSE, n |-> Zero]
    ELSE LET neg  == s[1] = "-"
             rest == IF s[1] \in {"+", "-"} THEN Tail(s) ELSE s
             u    == ParseUint(rest)
         IN  IF u.err = "syntax" THEN [ok |-> FALSE, n |-> Zero]
             ELSE IF ~MagLess(u.un, Two63Mag)
                  THEN [ok |-> FALSE, n |-> IF neg THEN MinInt64 ELSE MaxInt64]
             ELSE [ok |-> TRUE, n |-> MkNum(neg, u.un)]

(***************************************************************************)
(* strconv.ParseInt(s, 10, 64): [ok, n], ok standing for err == nil.       *)
(***************************************************************************)
ParseInt(s) ==
    IF Len(s) = 0 THEN [ok |-> FALSE, n |-> Zero]
    ELSE LET neg  == s[1] = "-"
             rest == IF s[1] \in {"+", "-"} THEN Tail(s) ELSE s
             u    == ParseUint(rest)
         IN  IF u.err = "syntax" THEN [ok |-> FALSE, n |-> Zero]
             ELSE IF ~neg /\ ~MagLess(u.un, Two63Mag)
                  THEN [ok |-> FALSE, n |-> MaxInt64]
             ELSE IF neg /\ MagLess(Two63Mag, u.un)
                  THEN [ok |-> FALSE, n |-> MinInt64]
             ELSE [ok |-> TRUE, n |-> MkNum(neg, u.un)]

(***************************************************************************)
(* Claim values, tagged with their dynamic Go type.                        *)
(***************************************************************************)
SignedKinds   == {"int", "int8", "int16", "int32", "int64"}
UnsignedKinds == {"uint", "uint8", "uint16", "uint32", "uint64"}
IntegerKinds  == SignedKinds \cup UnsignedKinds
FloatKinds    == {"float32", "float64"}
NumericKinds  == IntegerKinds \cup FloatKinds

Nil          == [kind |-> "nil"]
Str(t)       == [kind |-> "string", s |-> t]
BoolV(b)     == [kind |-> "bool", b |-> b]
IntV(k, n)   == [kind |-> k, n |-> n]
FloatV(k, q) == [kind |-> k, q |-> q]
StringsV(ts) == [kind |-> "[]string", elems |-> ts]
SliceV(vs)   == [kind |-> "[]interface{}", elems |-> vs]
\* A value of a type with a String() method (json.Number, time.Duration,
\* ...); s is what String() returns.
StringerV(t) == [kind |-> "Stringer", s |-> t]

\* c[name]: the value of the key, or nil when the key is absent.
Lookup(c, name) == IF name \in DOMAIN c THEN c[name] ELSE Nil

(***************************************************************************)
(* fmt.Sprintf("%v", v).                                                   *)
(***************************************************************************)
\* %v of the float q/4: the shortest decimal text that reads back as it.
FormatFloat(q) ==
    LET a    == IF q < 0 THEN -q ELSE q
        frac == CASE a % 4 = 0 -> <<>>
                  [] a % 4 = 1 -> <<".", "2", "5">>
                  [] a % 4 = 2 -> <<".", "5">>
                  [] a % 4 = 3 -> <<".", "7", "5">>
    IN  (IF q < 0 THEN <<"-">> ELSE <<>>) \o FormatInt(FromInt(a \div 4)) \o frac

\* %v of a value that is not a slice.
FmtScalar(v) ==
    CASE v.kind = "nil"            -> <<"<", "n", "i", "l", ">">>
      [] v.kind = "string"         -> v.s
      [] v.kind = "Stringer"       -> v.s
      [] v.kind = "bool"           -> IF v.b THEN <<"t", "r", "u", "e">>
                                             ELSE <<"f", "a", "l", "s", "e">>
      [] v.kind \in IntegerKinds   -> FormatInt(v.n)
      [] v.kind \in FloatKinds     -> FormatFloat(v.q)

FmtV(v) ==
    CASE v.kind = "[]string" ->
            <<"[">> \o Join(v.elems, <<" ">>) \o <<"]">>
      [] v.kind = "[]interface{}" ->
            <<"[">> \o Join([i \in 1..Len(v.elems) |-> FmtScalar(v.elems[i])],
                            <<" ">>) \o <<"]">>
      [] OTHER -> FmtScalar(v)

(***************************************************************************)
(* stringify, Claims.String, Claims.Strings.                               *)
(***************************************************************************)
stringify(value) ==
    IF value.kind = "nil" THEN <<>>
    ELSE CASE value.kind = "string"   -> value.s
           [] value.kind = "Stringer" -> value.s
           [] OTHER                   -> FmtV(value)

ClaimsString(c, name) == stringify(Lookup(c, name))

\* A []string result: isNil tells Go's nil slice from an allocated one.
NilStrings == [isNil |-> TRUE, elems |-> <<>>]
MkStrings(ts) == [isNil |-> FALSE, elems |-> ts]

\* A faulty variant of Strings: the presence check is lost, so that an absent
\* claim is converted like any other value.
StringsNoPresenceCheck(c, name) ==
    LET ts == Lookup(c, name)
    IN  CASE ts.kind = "[]string" -> MkStrings(ts.elems)
          [] ts.kind = "string"   -> MkStrings(<<ts.s>>)
          [] ts.kind = "[]interface{}" ->
                MkStrings([i \in 1..Len(ts.elems) |-> stringify(ts.elems[i])])
          [] OTHER                -> MkStrings(<<stringify(ts)>>)

\* A faulty variant of Strings: every present value is wrapped as one element.
StringsWrapAll(c, name) ==
    IF name \notin DOMAIN c THEN NilStrings
    ELSE LET ts == c[name]
         IN  CASE ts.kind = "[]string" -> MkStrings(ts.elems)
               [] ts.kind = "string"   -> MkStrings(<<ts.s>>)
               [] OTHER                -> MkStrings(<<stringify(ts)>>)

ClaimsStrings(c, name) ==
    IF name \notin DOMAIN c THEN NilStrings
    ELSE LET ts == c[name]
         IN  CASE ts.kind = "[]string" -> MkStrings(ts.elems)
               [] ts.kind = "string"   -> MkStrings(<<ts.s>>)
               [] ts.kind = "[]interface{}" ->
                     MkStrings([i \in 1..Len(ts.elems) |-> stringify(ts.elems[i])])
               [] OTHER                -> MkStrings(<<stringify(ts)>>)

(***************************************************************************)
(* regexp: a pattern is a tree; Ends(re, s, i) is the set of positions at  *)
(* which a match of re that starts at position i of s can end.             *)
(***************************************************************************)
Class(S)  == [op |-> "class", set |-> S]
Cat(a, b) == [op |-> "cat", a |-> a, b |-> b]
Alt(a, b) == [op |-> "alt", a |-> a, b |-> b]
Quest(a)  == [op |-> "quest", a |-> a]
Plus(a)   == [op |-> "plus", a |-> a]
Bol       == [op |-> "bol"]     \* ^ : the beginning of the text
Eol       == [op |-> "eol"]     \* $ : the end of the text

RECURSIVE Ends(_, _, _)
RECURSIVE PlusEnds(_, _, _, _)

Ends(re, s, i) ==
    CASE re.op = "class" -> IF i <= Len(s) /\ s[i] \in re.set THEN {i + 1} ELSE {}
      [] re.op = "bol"   -> IF i = 1 THEN {i} ELSE {}
      [] re.op = "eol"   -> IF i = Len(s) + 1 THEN {i} ELSE {}
      [] re.op = "cat"   -> UNION {Ends(re.b, s, j) : j \in Ends(re.a, s, i)}
      [] re.op = "alt"   -> Ends(re.a, s, i) \cup Ends(re.b, s, i)
      [] re.op = "quest" -> {i} \cup Ends(re.a, s, i)
      [] re.op = "plus"  -> PlusEnds(re.a, s, Ends(re.a, s, i), {})

PlusEnds(a, s, frontier, seen) ==
    IF frontier \subseteq seen THEN seen
    ELSE PlusEnds(a, s, UNION {Ends(a, s, j) : j \in frontier \ seen},
                  seen \cup frontier)

\* Regexp.MatchString: the pattern matches somewhere in s.
MatchString(re, s) == \E i \in 1..(Len(s) + 1) : Ends(re, s, i) # {}

NonZeroDigits == {"1", "2", "3", "4", "5", "6", "7", "8", "9"}
Digits == NonZeroDigits \cup {"0"}

\* A faulty variant of trueBool: "^([Tt]r?u?e?|[1-9][0-9]*)$".
trueBoolPrefixes ==
    Cat(Bol,
        Cat(Alt(Cat(Class({"T", "t"}),
                    Cat(Quest(Class({"r"})),
                        Cat(Quest(Class({"u"})), Quest(Class({"e"}))))),
                Cat(Class(NonZeroDigits), Quest(Plus(Class(Digits))))),
            Eol))

\* A faulty variant of trueBool: "([Tt]r?u?e|[1-9][0-9]+)", the anchors lost.
trueBoolUnanchored ==
    Alt(Cat(Class({"T", "t"}),
            Cat(Quest(Class({"r"})), Cat(Quest(Class({"u"})), Class({"e"})))),
        Cat(Class(NonZeroDigits), Plus(Class(Digits))))

\* "^([Tt]r?u?e|[1-9][0-9]+)$"
trueBool ==
    Cat(Bol,
        Cat(Alt(Cat(Class({"T", "t"}),
                    Cat(Quest(Class({"r"})),
                        Cat(Quest(Class({"u"})), Class({"e"})))),
                Cat(Class(NonZeroDigits), Plus(Class(Digits)))),
            Eol))

(***************************************************************************)
(* Claims.Bool and Claims.Int.                                             *)
(***************************************************************************)
ClaimsBool(c, name) ==
    LET ts == Lookup(c, name)
    IN  CASE ts.kind = "bool" -> ts.b
          [] ts.kind \in {"int", "uint", "int32", "uint32", "int64", "uint64"} ->
                NumPositive(ts.n)
          [] ts.kind \in {"float64", "float32"} -> ts.q > 0
          [] ts.kind = "string" -> MatchString(trueBool, ts.s)
          [] OTHER -> FALSE

\* A faulty variant of Int: the error of ParseInt is ignored.
ClaimsIntIgnoreErr(c, name) ==
    LET ts == Lookup(c, name)
    IN  CASE ts.kind \in {"uint64", "uint32", "uint"} -> Int64OfUnsigned(ts.n)
          [] ts.kind \in {"int64", "int32", "int"} -> Int64OfSigned(ts.n)
          [] ts.kind \in {"float64", "float32"} -> Int64OfFloat(ts.q)
          [] ts.kind = "string" -> ParseInt(ts.s).n
          [] OTHER -> Zero

ClaimsInt(c, name) ==
    LET ts == Lookup(c, name)
    IN  CASE ts.kind \in {"uint64", "uint32", "uint"} -> Int64OfUnsigned(ts.n)
          [] ts.kind \in {"int64", "int32", "int"} -> Int64OfSigned(ts.n)
          [] ts.kind \in {"float64", "float32"} -> Int64OfFloat(ts.q)
          [] ts.kind = "string" ->
                LET r == ParseInt(ts.s) IN IF r.ok THEN r.n ELSE Zero
          [] OTHER -> Zero

(***************************************************************************)
(* time.Time: the instant in Unix seconds with its sub-second part, and    *)
(* the location the time is presented in ("UTC", "Local", or "FixedZone",  *)
(* the zone time.Parse fabricates for an abbreviation it does not know).   *)
(***************************************************************************)
\* time.Unix(sec, 0)
Unix(sec) == [unix |-> sec, nsec |-> 0, loc |-> "Local"]

\* Time.UTC(): the same instant, presented in UTC.
UTC(t) == [t EXCEPT !.loc = "UTC"]

\* time.Unix(0, 0).UTC()
Epoch == UTC(Unix(Zero))

(***************************************************************************)
(* time.Parse(time.RFC822, s), RFC822 = "02 Jan 06 15:04 MST".  A step of  *)
(* the parser gives [ok, val, rest].                                       *)
(***************************************************************************)
Drop(s, n) == SubSeq(s, n + 1, Len(s))
Bad == [ok |-> FALSE, val |-> 0, rest |-> <<>>]

\* getnum: one or two digits; exactly two when fixed.
getnum(s, fixed) ==
    IF Len(s) = 0 \/ ~IsDigitChar(s[1]) THEN Bad
    ELSE IF Len(s) = 1 \/ ~IsDigitChar(s[2])
         THEN IF fixed THEN Bad
              ELSE [ok |-> TRUE, val |-> DigitOf(s[1]), rest |-> Drop(s, 1)]
    ELSE [ok |-> TRUE, val |-> DigitOf(s[1]) * 10 + DigitOf(s[2]), rest |-> Drop(s, 2)]

\* A literal of the layout.
skip(s, lit) ==
    IF Len(s) >= Len(lit) /\ SubSeq(s, 1, Len(lit)) = lit
    THEN [ok |-> TRUE, val |-> 0, rest |-> Drop(s, Len(lit))]
    ELSE Bad

Lower == [c \in {"A","B","C","D","E","F","G","J","L","M","N","O","P","R","S","T","U","V","Y"}
            |-> CASE c = "A" -> "a" [] c = "B" -> "b" [] c = "C" -> "c" [] c = "D" -> "d"
                  [] c = "E" -> "e" [] c = "F" -> "f" [] c = "G" -> "g" [] c = "J" -> "j"
                  [] c = "L" -> "l" [] c = "M" -> "m" [] c = "N" -> "n" [] c = "O" -> "o"
                  [] c = "P" -> "p" [] c = "R" -> "r" [] c = "S" -> "s" [] c = "T" -> "t"
                  [] c = "U" -> "u" [] c = "V" -> "v" [] c = "Y" -> "y"]

ToLower(c) == IF c \in DOMAIN Lower THEN Lower[c] ELSE c

shortMonthNames ==
    << <<"j","a","n">>, <<"f","e","b">>, <<"m","a","r">>, <<"a","p","r">>,
       <<"m","a","y">>, <<"j","u","n">>, <<"j","u","l">>, <<"a","u","g">>,
       <<"s","e","p">>, <<"o","c","t">>, <<"n","o","v">>, <<"d","e","c">> >>

\* lookup(shortMonthNames, s): the month whose name begins s, in any case.
lookupMonth(s) ==
    IF Len(s) < 3 THEN Bad
    ELSE LET w == [i \in 1..3 |-> ToLower(s[i])]
         IN  IF \E m \in 1..12 : shortMonthNames[m] = w
             THEN [ok |-> TRUE, val |-> CHOOSE m \in 1..12 : shortMonthNames[m] = w,
                   rest |-> Drop(s, 3)]
             ELSE Bad

\* The two-digit year: atoi of two characters (a sign counts as one), then
\* the century: 69..99 are 19xx, the rest 20xx.
parseYear(s) ==
    IF Len(s) < 2 THEN Bad
    ELSE LET signed == s[1] \in {"+", "-"}
             okay   == IsDigitChar(s[2]) /\ (signed \/ IsDigitChar(s[1]))
             y      == IF signed
                       THEN (IF s[1] = "-" THEN -1 ELSE 1) * DigitOf(s[2])
                       ELSE DigitOf(s[1]) * 10 + DigitOf(s[2])
         IN  IF ~okay THEN Bad
             ELSE [ok |-> TRUE, val |-> IF y >= 69 THEN y + 1900 ELSE y + 2000,
                   rest |-> Drop(s, 2)]

IsUpper(c) ==
    c \in {"A","B","C","D","E","F","G","H","I","J","K","L","M","N","O","P","Q",
           "R","S","T","U","V","W","X","Y","Z"}

RECURSIVE LeadingDigits(_)
\* The number of leading digits of s.
LeadingDigits(s) ==
    IF Len(s) = 0 \/ ~IsDigitChar(s[1]) THEN 0 ELSE 1 + LeadingDigits(Tail(s))

RECURSIVE LeadingUpper(_)
\* The number of leading upper-case letters of s.
LeadingUpper(s) ==
    IF Len(s) = 0 \/ ~IsUpper(s[1]) THEN 0 ELSE 1 + LeadingUpper(Tail(s))

RECURSIVE DigitsValue(_)
\* The value of a text of digits, saturated above 23.
DigitsValue(ds) ==
    IF Len(ds) = 0 THEN 0
    ELSE LET v == DigitsValue(SubSeq(ds, 1, Len(ds) - 1)) * 10 + DigitOf(ds[Len(ds)])
         IN  IF v > 23 THEN 24 ELSE v

\* parseSignedOffset / the offset of parseGMT: the length of a sign followed
\* by an hour count of at most 23, or 0.
signedOffsetLen(s) ==
    IF Len(s) = 0 \/ s[1] \notin {"+", "-"} THEN 0
    ELSE LET k == LeadingDigits(Tail(s))
         IN  IF k = 0 \/ DigitsValue(SubSeq(s, 2, k + 1)) > 23 THEN 0 ELSE k + 1

\* parseTimeZone: the length of the zone abbreviation that begins s, or 0.
parseTimeZone(s) ==
    IF Len(s) < 3 THEN 0
    ELSE IF Len(s) >= 4 /\ SubSeq(s, 1, 4) \in {<<"C","h","S","T">>, <<"M","e","S","T">>}
         THEN 4
    ELSE IF SubSeq(s, 1, 3) = <<"G","M","T">> THEN 3 + signedOffsetLen(Drop(s, 3))
    ELSE IF s[1] \in {"+", "-"} THEN signedOffsetLen(s)
    ELSE LET u  == LeadingUpper(s)
             nUpper == IF u > 6 THEN 6 ELSE u
         IN  CASE nUpper = 5 -> IF s[5] = "T" THEN 5 ELSE 0
               [] nUpper = 4 -> IF s[4] = "T" \/ SubSeq(s, 1, 4) = <<"W","I","T","A">>
                                THEN 4 ELSE 0
               [] nUpper = 3 -> 3
               [] OTHER -> 0

\* The zone of the layout: "UTC", or an abbreviation.
parseZone(s) ==
    IF Len(s) >= 3 /\ SubSeq(s, 1, 3) = <<"U","T","C">>
    THEN [ok |-> TRUE, val |-> <<"U","T","C">>, rest |-> Drop(s, 3)]
    ELSE LET n == parseTimeZone(s)
         IN  IF n = 0 THEN [ok |-> FALSE, val |-> <<>>, rest |-> <<>>]
             ELSE [ok |-> TRUE, val |-> SubSeq(s, 1, n), rest |-> Drop(s, n)]

isLeap(year) == year % 4 = 0 /\ (year % 100 # 0 \/ year % 400 = 0)

daysBefore == <<0, 31, 59, 90, 120, 151, 181, 212, 243, 273, 304, 334, 365>>

daysIn(m, year) ==
    IF m = 2 /\ isLeap(year) THEN 29 ELSE daysBefore[m + 1] - daysBefore[m]

LeapsBefore(year) ==
    ((year - 1) \div 4) - ((year - 1) \div 100) + ((year - 1) \div 400)

\* Date(year, month, day, hour, min, 0, 0, UTC), in minutes since the epoch.
DateMinutes(year, month, day, hour, min) ==
    LET days == 365 * (year - 1970) + (LeapsBefore(year) - LeapsBefore(1970))
                  + daysBefore[month]
                  + (IF month > 2 /\ isLeap(year) THEN 1 ELSE 0)
                  + (day - 1)
    IN  (days * 24 + hour) * 60 + min

\* A whole number of minutes as a number of seconds.
SecondsOfMinutes(m) ==
    IF m = 0 THEN Zero
    ELSE [neg |-> m < 0, mag |-> Append(NatMag((IF m < 0 THEN -m ELSE m) * 6), 0)]

\* Location.lookupName of the process's Local location.  The process runs
\* in UTC, whose only abbreviation ("UTC") the parser has already taken.
LocalLookupName(zoneName) == [ok |-> FALSE, offset |-> 0]

\* The state of the parser: what is left of the text, and the fields read.
Start(s) ==
    [ok |-> TRUE, rest |-> s, day |-> 0, month |-> 0, year |-> 0, hour |-> 0,
     min |-> 0, zone |-> <<>>]

Failed(st) == [st EXCEPT !.ok = FALSE]

Literal(st, lit) ==
    IF ~st.ok THEN st
    ELSE LET r == skip(st.rest, lit)
         IN  IF r.ok THEN [st EXCEPT !.rest = r.rest] ELSE Failed(st)

\* "02"
stdZeroDay(st) ==
    IF ~st.ok THEN st
    ELSE LET r == getnum(st.rest, TRUE)
         IN  IF r.ok THEN [st EXCEPT !.day = r.val, !.rest = r.rest] ELSE Failed(st)

\* "Jan"
stdMonth(st) ==
    IF ~st.ok THEN st
    ELSE LET r == lookupMonth(st.rest)
         IN  IF r.ok THEN [st EXCEPT !.month = r.val, !.rest = r.rest] ELSE Failed(st)

\* "06"
stdYear(st) ==
    IF ~st.ok THEN st
    ELSE LET r == parseYear(st.rest)
         IN  IF r.ok THEN [st EXCEPT !.year = r.val, !.rest = r.rest] ELSE Failed(st)

\* "15"
stdHour(st) ==
    IF ~st.ok THEN st
    ELSE LET r == getnum(st.rest, FALSE)
         IN  IF r.ok /\ r.val < 24 THEN [st EXCEPT !.hour = r.val, !.rest = r.rest]
             ELSE Failed(st)

\* "04"
stdZeroMinute(st) ==
    IF ~st.ok THEN st
    ELSE LET r == getnum(st.rest, TRUE)
         IN  IF r.ok /\ r.val < 60 THEN [st EXCEPT !.min = r.val, !.rest = r.rest]
             ELSE Failed(st)

\* "MST"
stdTZ(st) ==
    IF ~st.ok THEN st
    ELSE LET r == parseZone(st.rest)
         IN  IF r.ok THEN [st EXCEPT !.zone = r.val, !.rest = r.rest] ELSE Failed(st)

\* The fields of the layout "02 Jan 06 15:04 MST", read from left to right.
ParseLayout(s) ==
    stdTZ(Literal(stdZeroMinute(Literal(stdHour(Literal(stdYear(Literal(
        stdMonth(Literal(stdZeroDay(Start(s)), <<" ">>)),
            <<" ">>)), <<" ">>)), <<":">>)), <<" ">>))

\* The time the fields read denote.
TimeOfFields(st) ==
    LET utc   == DateMinutes(st.year, st.month, st.day, st.hour, st.min)
        local == LocalLookupName(st.zone)
    IN  IF st.zone = <<"U","T","C">> THEN UTC(Unix(SecondsOfMinutes(utc)))
        ELSE IF local.ok THEN Unix(SecondsOfMinutes(utc - local.offset \div 60))
        ELSE [Unix(SecondsOfMinutes(utc)) EXCEPT !.loc = "FixedZone"]

\* time.Parse(time.RFC822, s): [ok, t], ok standing for err == nil.
ParseFields(st) ==
    IF ~st.ok \/ Len(st.rest) > 0 THEN [ok |-> FALSE, t |-> Unix(Zero)]
    ELSE IF st.day < 1 \/ st.day > daysIn(st.month, st.year)
         THEN [ok |-> FALSE, t |-> Unix(Zero)]
    ELSE [ok |-> TRUE, t |-> TimeOfFields(st)]

ParseRFC822(s) == ParseFields(ParseLayout(s))

(***************************************************************************)
(* Claims.Time.                                                            *)
(***************************************************************************)
ClaimsTime(c, name) ==
    LET ts == Lookup(c, name)
    IN  CASE ts.kind \in {"uint64", "uint32", "uint"} -> UTC(Unix(Int64OfUnsigned(ts.n)))
          [] ts.kind \in {"int64", "int32", "int"} -> UTC(Unix(Int64OfSigned(ts.n)))
          [] ts.kind \in {"float64", "float32"} -> UTC(Unix(Int64OfFloat(ts.q)))
          [] ts.kind = "string" ->
                LET r == ParseRFC822(ts.s) IN IF r.ok THEN UTC(r.t) ELSE Epoch
          [] OTHER -> Epoch

(***************************************************************************)
(* The named accessors.                                                    *)
(***************************************************************************)
Issuer(c)    == ClaimsString(c, "iss")
Subject(c)   == ClaimsString(c, "sub")
IssuedAt(c)  == ClaimsTime(c, "iat")
NotBefore(c) == ClaimsTime(c, "nbf")
ExpiresAt(c) == ClaimsTime(c, "exp")

(***************************************************************************)
(* The claim sets the decoder can hand over.                               *)
(***************************************************************************)
Alphabet == {"T", "t", "r", "u", "e", "0", "1", "-"}

ShortTexts == SeqsUpTo(Alphabet, MaxLen)

ExampleTexts ==
    { <<"t","r","u","e">>, <<"T","r","u","e">>, <<"T","R","U","E">>,
      <<"t","r","u">>, <<"t","r">>, <<"t">>, <<"1","0">>, <<"9","9">>,
      <<"f","a","l","s","e">>, <<"y","e","s">>, <<>>,
      <<"t","r","u","e","\n">>, <<"x","t","r","u","e">>, <<"1","0","x">>,
      <<"0","1","0">>, <<"1","0","0","0","0">>, <<"t","r","u","u","e">>,
      <<"+","5">>, <<" ","5">>, <<"1","_","0">>, <<"0","x","1","0">>,
      <<"1",".","5">>, <<"a","d","m","i","n">> }
    \cup {<<DigitChars[d]>> : d \in 1..10}

SmallInts == (-MaxSmall)..MaxSmall

KindMax(k) ==
    CASE k = "int8"   -> <<1,2,7>>
      [] k = "uint8"  -> <<2,5,5>>
      [] k = "int16"  -> <<3,2,7,6,7>>
      [] k = "uint16" -> <<6,5,5,3,5>>
      [] k = "int32"  -> <<2,1,4,7,4,8,3,6,4,7>>
      [] k = "uint32" -> <<4,2,9,4,9,6,7,2,9,5>>
      [] k \in {"int64", "int"}   -> MaxInt64Mag      \* int is 64 bits wide
      [] k \in {"uint64", "uint"} -> MaxUint64Mag     \* and so is uint

\* The magnitude of the least value of a kind.
KindMinMag(k) ==
    CASE k = "int8"  -> <<1,2,8>>
      [] k = "int16" -> <<3,2,7,6,8>>
      [] k = "int32" -> <<2,1,4,7,4,8,3,6,4,8>>
      [] k \in {"int64", "int"} -> Two63Mag
      [] OTHER -> <<0>>

InRange(k, n) ==
    IF n.neg THEN ~MagLess(KindMinMag(k), n.mag) ELSE ~MagLess(KindMax(k), n.mag)

\* The integers values are drawn from: the small ones, the least and the
\* greatest value of every kind and their neighbours, and a timestamp.
IntPool ==
    {FromInt(i) : i \in SmallInts}
      \cup {MkNum(FALSE, KindMax(k)) : k \in IntegerKinds}
      \cup {MkNum(TRUE, KindMinMag(k)) : k \in IntegerKinds}
      \cup {MkNum(FALSE, KindMinMag(k)) : k \in IntegerKinds}
      \cup {MkNum(FALSE, <<1,7,0,0,0,0,0,0,0,0>>), MkNum(FALSE, Two63Mag),
            MkNum(TRUE, MaxInt64Mag)}

Int64Samples == {n \in IntPool : InRange("int64", n)}

IntValues ==
    UNION {{IntV(k, n) : n \in {m \in IntPool : InRange(k, m)}} : k \in IntegerKinds}

FloatValues == {FloatV(k, q) : k \in FloatKinds, q \in SmallInts}

IntTexts ==
    {FormatInt(n) : n \in Int64Samples}
      \cup { FormatInt(MkNum(FALSE, Two63Mag)),                      \* MaxInt64 + 1
             <<"-">> \o FormatInt(MkNum(FALSE, MaxInt64Mag)) \o <<"0">>,
             <<"-","9","2","2","3","3","7","2","0","3","6","8","5","4","7","7","5","8","0","9">>,
             FormatInt(MkNum(FALSE, MaxUint64Mag)),
             FormatInt(MkNum(FALSE, Two64Mag)),
             <<"0","0">> \o FormatInt(MaxInt64),
             FormatInt(MaxInt64) \o <<"x">> }

RefTime == <<"0","2"," ","J","a","n"," ","0","6"," ","1","5",":","0","4"," ","M","S","T">>
NotADate == <<"n","o","t","-","a","-","d","a","t","e">>

\* s with the characters from position i to j replaced by r.
Splice(s, i, j, r) == SubSeq(s, 1, i - 1) \o r \o SubSeq(s, j + 1, Len(s))

TimeTexts ==
    {RefTime, NotADate}
      \cup {Splice(RefTime, 1, 2, d) :
              d \in {<<"0","1">>, <<"3","1">>, <<"0","0">>, <<"3","2">>, <<"2">>, <<"_","2">>}}
      \cup {Splice(RefTime, 4, 6, m) :
              m \in {<<"j","A","N">>, <<"F","e","b">>, <<"D","e","c">>, <<"F","o","o">>,
                     <<"J","a","n","u","a","r","y">>}}
      \cup {Splice(RefTime, 1, 9, d) :
              d \in {<<"2","9"," ","F","e","b"," ","0","4">>, <<"2","9"," ","F","e","b"," ","0","5">>,
                     <<"3","1"," ","A","p","r"," ","0","6">>, <<"3","1"," ","D","e","c"," ","6","8">>,
                     <<"0","1"," ","J","a","n"," ","6","9">>, <<"0","1"," ","J","a","n"," ","-","5">>,
                     <<"0","1"," ","J","a","n"," ","2","0","0","6">>}}
      \cup {Splice(RefTime, 11, 15, h) :
              h \in {<<"0","0",":","0","0">>, <<"2","3",":","5","9">>, <<"2","4",":","0","0">>,
                     <<"3",":","0","4">>, <<"1","5",":","6","0">>, <<"1","5",":","4">>,
                     <<"1","5",":","0","4",":","0","5">>}}
      \cup {Splice(RefTime, 17, 19, z) :
              z \in {<<"U","T","C">>, <<"G","M","T">>, <<"G","M","T","+","3">>,
                     <<"G","M","T","+","2","4">>, <<"+","0","3">>, <<"-","0","7","0","0">>,
                     <<"C","E","S","T">>, <<"A","B","C","D">>, <<"u","t","c">>, <<"E","T">>,
                     <<"M","S","T"," ">>, <<>>}}
      \cup { <<"0","1"," ","J","a","n"," ","7","0"," ","0","0",":","0","0"," ","U","T","C">>,
             <<" ">> \o RefTime }

Texts == ShortTexts \cup ExampleTexts \cup IntTexts \cup TimeTexts

ListTexts == {<<>>, <<"a">>, <<"x","y">>}

ElemValues ==
    { IntV("int", FromInt(1)), Str(<<"x">>), BoolV(TRUE), Nil,
      FloatV("float64", 6), StringerV(<<"7">>) }

Values ==
    {Str(t) : t \in Texts}
      \cup IntValues \cup FloatValues
      \cup {BoolV(TRUE), BoolV(FALSE), Nil}
      \cup {StringerV(<<"1","0">>), StringerV(<<"t","r","u","e">>), StringerV(RefTime)}
      \cup {StringsV(ts) : ts \in SeqsUpTo(ListTexts, MaxElems)}
      \cup {SliceV(vs) : vs \in SeqsUpTo(ElemValues, MaxElems)}

\* The keys of the generated one-claim sets, and the names the generic
\* accessors are called with.
KeyNames == {"iss", "exp"}
QueryNames == {"iss", "exp", "sub"}

ExampleClaims ==
    { <<>>,
      ("iss" :> Str(<<"a","u","t","h">>)) @@ ("exp" :> IntV("int64", MkNum(FALSE, <<1,7,0,0,0,0,0,0,0,0>>))),
      ("sub" :> StringerV(<<"7">>)) @@ ("iat" :> FloatV("float64", 6))
          @@ ("nbf" :> IntV("uint32", FromInt(1))) @@ ("exp" :> Str(RefTime)),
      ("sub" :> Nil) @@ ("iat" :> IntV("int16", FromInt(5)))
          @@ ("nbf" :> Str(NotADate)) @@ ("role" :> StringsV(<<<<"a">>>>)) }

ClaimSets == ExampleClaims \cup {k :> v : k \in KeyNames, v \in Values}

(***************************************************************************)
(* The state machine: the decoder builds the claim set once; afterwards    *)
(* the accessors are called in any order, with any names.                  *)
(***************************************************************************)
Init ==
    /\ claims \in ClaimSets
    /\ claims0 = claims
    /\ last = [op |-> "none", name |-> "", result |-> FALSE]

\* A faulty variant of CallString: the converted text is stored back in the map.
CallStringCaching ==
    \E name \in QueryNames :
        /\ last' = [op |-> "String", name |-> name, result |-> ClaimsString(claims, name)]
        /\ claims' = (name :> Str(ClaimsString(claims, name))) @@ claims
        /\ UNCHANGED claims0

CallString ==
    \E name \in QueryNames :
        /\ last' = [op |-> "String", name |-> name, result |-> ClaimsString(claims, name)]
        /\ UNCHANGED <<claims, claims0>>

CallStrings ==
    \E name \in QueryNames :
        /\ last' = [op |-> "Strings", name |-> name, result |-> ClaimsStrings(claims, name)]
        /\ UNCHANGED <<claims, claims0>>

CallBool ==
    \E name \in QueryNames :
        /\ last' = [op |-> "Bool", name |-> name, result |-> ClaimsBool(claims, name)]
        /\ UNCHANGED <<claims, claims0>>

CallInt ==
    \E name \in QueryNames :
        /\ last' = [op |-> "Int", name |-> name, result |-> ClaimsInt(claims, name)]
        /\ UNCHANGED <<claims, claims0>>

CallTime ==
    \E name \in QueryNames :
        /\ last' = [op |-> "Time", name |-> name, result |-> ClaimsTime(claims, name)]
        /\ UNCHANGED <<claims, claims0>>

CallIssuer ==
    /\ last' = [op |-> "Issuer", name |-> "iss", result |-> Issuer(claims)]
    /\ UNCHANGED <<claims, claims0>>

CallSubject ==
    /\ last' = [op |-> "Subject", name |-> "sub", result |-> Subject(claims)]
    /\ UNCHANGED <<claims, claims0>>

CallIssuedAt ==
    /\ last' = [op |-> "IssuedAt", name |-> "iat", result |-> IssuedAt(claims)]
    /\ UNCHANGED <<claims, claims0>>

CallNotBefore ==
    /\ last' = [op |-> "NotBefore", name |-> "nbf", result |-> NotBefore(claims)]
    /\ UNCHANGED <<claims, claims0>>

CallExpiresAt ==
    /\ last' = [op |-> "ExpiresAt", name |-> "exp", result |-> ExpiresAt(claims)]
    /\ UNCHANGED <<claims, claims0>>

Next ==
    \/ CallString
    \/ CallStrings
    \/ CallBool
    \/ CallInt
    \/ CallTime
    \/ CallIssuer
    \/ CallSubject
    \/ CallIssuedAt
    \/ CallNotBefore
    \/ CallExpiresAt

Spec == Init /\ [][Next]_vars

(***************************************************************************)
(* The properties.  Arg is the value the last call found under its name.   *)
(***************************************************************************)
Arg == Lookup(claims, last.name)
Present == last.name \in DOMAIN claims
EpochUTC == [unix |-> [neg |-> FALSE, mag |-> <<0>>], nsec |-> 0, loc |-> "UTC"]

\* C1: for a name that is not a key of the claim set, String returns the
\* empty text, Strings the nil sequence, Bool false, Int 0 and Time the
\* Unix epoch origin in UTC.
AbsentGivesDefault ==
    ~Present =>
        /\ last.op = "String"  => last.result = <<>>
        /\ last.op = "Strings" => last.result.isNil /\ last.result.elems = <<>>
        /\ last.op = "Bool"    => last.result = FALSE
        /\ last.op = "Int"     => last.result = [neg |-> FALSE, mag |-> <<0>>]
        /\ last.op = "Time"    => last.result = EpochUTC

AbsentWitness ==
    /\ last.op = "Strings"
    /\ ~Present
    /\ DOMAIN claims # {}
    /\ last.result.isNil

ValuePositive(v) ==
    IF v.kind \in FloatKinds THEN v.q > 0 ELSE ~v.n.neg /\ v.n.mag # <<0>>

\* C2: for a numeric value of any width and signedness, integer or
\* floating, Bool returns true if and only if the value is greater than 0.
BoolNumericPositive ==
    (last.op = "Bool" /\ Arg.kind \in NumericKinds) =>
        (last.result <=> ValuePositive(Arg))

TrueExamples ==
    { <<"t","r","u","e">>, <<"T","r","u","e">>, <<"T","R","U","E">>,
      <<"t","r","u">>, <<"t","r">>, <<"t">>, <<"1","0">>, <<"9","9">> }

FalseExamples ==
    {<<DigitChars[d]>> : d \in 1..10}
      \cup {<<"f","a","l","s","e">>, <<"y","e","s">>, <<>>}

\* C3 as stated: Bool is true for the texts "true", "True", "TRUE", "tru",
\* "tr", "t", "10", "99" and false for "0".."9", "false", "yes" and "".
BoolTextExamples ==
    (last.op = "Bool" /\ Arg.kind = "string") =>
        /\ Arg.s \in TrueExamples => last.result
        /\ Arg.s \in FalseExamples => ~last.result

\* C3 as amended: Bool is true for the texts "true", "True", "10", "99" and
\* false for "TRUE", "tru", "tr", "t", "0".."9", "false", "yes" and "".
BoolTextExamplesAmended ==
    (last.op = "Bool" /\ Arg.kind = "string") =>
        /\ Arg.s \in {<<"t","r","u","e">>, <<"T","r","u","e">>, <<"1","0">>, <<"9","9">>}
              => last.result
        /\ Arg.s \in FalseExamples
                       \cup {<<"T","R","U","E">>, <<"t","r","u">>, <<"t","r">>, <<"t">>}
              => ~last.result

BoolTextExamplesWitness ==
    /\ last.op = "Bool"
    /\ Present
    /\ Arg.kind = "string"
    /\ Arg.s = <<"t","r","u">>
    /\ last.result = FALSE

\* The texts of ^([Tt]r?u?e|[1-9][0-9]+)$, spelled out.
InTrueLanguage(t) ==
    \/ /\ Len(t) \in 2..4
       /\ t[1] \in {"T", "t"}
       /\ t[Len(t)] = "e"
       /\ SubSeq(t, 2, Len(t) - 1) \in {<<>>, <<"r">>, <<"u">>, <<"r","u">>}
    \/ /\ Len(t) >= 2
       /\ t[1] \in {"1", "2", "3", "4", "5", "6", "7", "8", "9"}
       /\ \A i \in 2..Len(t) : IsDigitChar(t[i])

\* C4: for a text value, Bool returns true if and only if the whole text
\* is 'T' or 't', an optional 'r', an optional 'u' and an 'e', or a digit
\* 1-9 followed by one or more digits.
BoolTextPattern ==
    (last.op = "Bool" /\ Arg.kind = "string") =>
        (last.result <=> InTrueLanguage(Arg.s))

BoolTextPatternWitness ==
    /\ last.op = "Bool"
    /\ Present
    /\ Arg.kind = "string"
    /\ Arg.s = <<"t","u","e">>
    /\ last.result = TRUE

\* C5: Int returns n for a claim holding the 64-bit signed integer n, and
\* for a claim holding the base-10 text of n.
IntRoundTrip ==
    last.op = "Int" =>
        /\ Arg.kind = "int64" => last.result = Arg.n
        /\ Arg.kind = "string" =>
              \A n \in Int64Samples : Arg.s = FormatInt(n) => last.result = n

IntRoundTripWitness ==
    /\ last.op = "Int"
    /\ Present
    /\ Arg.kind = "string"
    /\ Arg.s = <<"-","9","2","2","3","3","7","2","0","3","6","8","5","4","7","7","5","8","0","8">>
    /\ last.result = [neg |-> TRUE,
                      mag |-> <<9,2,2,3,3,7,2,0,3,6,8,5,4,7,7,5,8,0,8>>]

\* The value of v as a 64-bit signed integer: narrowed modulo 2^64, the
\* fraction of a float dropped.
AsInt64(v) ==
    IF v.kind \in FloatKinds
    THEN IF v.q >= 0 THEN FromInt(v.q \div 4) ELSE FromInt(-((-v.q) \div 4))
    ELSE IF ~v.n.neg /\ MagLess(MaxInt64Mag, v.n.mag)
         THEN [neg |-> TRUE, mag |-> MagSub(Two64Mag, v.n.mag)]
         ELSE v.n

\* C6: for a numeric value of any width and signedness, Int returns the
\* value converted to a 64-bit signed integer.
IntNumericConverted ==
    (last.op = "Int" /\ Arg.kind \in NumericKinds) => last.result = AsInt64(Arg)

\* C7: for epoch seconds s held in an integer of any width and signedness,
\* Time returns the UTC time s seconds after the epoch, without a
\* sub-second part.
TimeRoundTrip ==
    (last.op = "Time" /\ Arg.kind \in IntegerKinds /\ InRange("int64", Arg.n)) =>
        last.result = [unix |-> Arg.n, nsec |-> 0, loc |-> "UTC"]

\* The texts of the base-10 signed 64-bit integers: an optional sign and
\* at least one digit, the number within -2^63 .. 2^63 - 1.
DigitsOfText(t) == [i \in 1..Len(t) |-> DigitOf(t[i])]
Unsigned(t) == IF Len(t) > 0 /\ t[1] \in {"+", "-"} THEN Tail(t) ELSE t
IsIntText(t) ==
    /\ Len(Unsigned(t)) > 0
    /\ \A i \in 1..Len(Unsigned(t)) : IsDigitChar(Unsigned(t)[i])
TextValue(t) == MkNum(t[1] = "-", DigitsOfText(Unsigned(t)))
IsInt64Text(t) == IsIntText(t) /\ InRange("int64", TextValue(t))

\* C8: on a text value, Int returns the parsed integer, and 0 when the
\* text is no base-10 signed 64-bit integer; Time returns the parsed
\* instant in UTC, and the epoch origin in UTC when the text is not in
\* the RFC 822 format.
ParseFailureDefaults ==
    Arg.kind = "string" =>
        /\ last.op = "Int" =>
              last.result = IF IsInt64Text(Arg.s) THEN TextValue(Arg.s)
                            ELSE [neg |-> FALSE, mag |-> <<0>>]
        /\ last.op = "Time" =>
              /\ last.result.loc = "UTC" /\ last.result.nsec = 0
              /\ last.result.unix = IF ParseRFC822(Arg.s).ok
                                    THEN ParseRFC822(Arg.s).t.unix
                                    ELSE [neg |-> FALSE, mag |-> <<0>>]
              /\ Arg.s = NotADate => last.result = EpochUTC
              /\ Arg.s = RefTime =>
                    last.result.unix = [neg |-> FALSE, mag |-> <<1,1,3,6,2,1,4,2,4,0>>]

ParseFailureWitness ==
    /\ last.op = "Int"
    /\ Present
    /\ Arg.kind = "string"
    /\ Arg.s = <<"9","2","2","3","3","7","2","0","3","6","8","5","4","7","7","5","8","0","8">>
    /\ last.result = [neg |-> FALSE, mag |-> <<0>>]

\* C9: on a present claim, Strings returns a sequence of text as it is, a
\* single text as a one-element sequence, a sequence of values element by
\* element through stringify, and any other value as the one-element
\* sequence of its stringify; [1, "x", true] gives ["1", "x", "true"].
StringsPresent ==
    (last.op = "Strings" /\ Present) =>
        /\ ~last.result.isNil
        /\ Arg.kind = "[]string" => last.result.elems = Arg.elems
        /\ Arg.kind = "string" => last.result.elems = <<Arg.s>>
        /\ Arg.kind = "[]interface{}" =>
              /\ Len(last.result.elems) = Len(Arg.elems)
              /\ \A i \in 1..Len(Arg.elems) :
                    last.result.elems[i] = stringify(Arg.elems[i])
        /\ Arg.kind \notin {"[]string", "string", "[]interface{}"} =>
              last.result.elems = <<stringify(Arg)>>
        /\ Arg = SliceV(<<IntV("int", FromInt(1)), Str(<<"x">>), BoolV(TRUE)>>) =>
              last.result.elems = << <<"1">>, <<"x">>, <<"t","r","u","e">> >>

StringsPresentWitness ==
    /\ last.op = "Strings"
    /\ Present
    /\ Arg = SliceV(<<IntV("int", FromInt(1)), Str(<<"x">>), BoolV(TRUE)>>)
    /\ last.result.elems = << <<"1">>, <<"x">>, <<"t","r","u","e">> >>

\* What a call returns on the claim set c.
ResultOn(c, op, name) ==
    CASE op = "String"    -> ClaimsString(c, name)
      [] op = "Strings"   -> ClaimsStrings(c, name)
      [] op = "Bool"      -> ClaimsBool(c, name)
      [] op = "Int"       -> ClaimsInt(c, name)
      [] op = "Time"      -> ClaimsTime(c, name)
      [] op = "Issuer"    -> Issuer(c)
      [] op = "Subject"   -> Subject(c)
      [] op = "IssuedAt"  -> IssuedAt(c)
      [] op = "NotBefore" -> NotBefore(c)
      [] op = "ExpiresAt" -> ExpiresAt(c)

\* C10: after any sequence of accessor calls the claim set has the keys
\* and values the decoder gave it, and every call returns what it returns
\* on that claim set, whichever calls ran before it.
ReadOnlyAndStateless ==
    /\ claims = claims0
    /\ last.op # "none" => last.result = ResultOn(claims0, last.op, last.name)

ReadOnlyWitness ==
    /\ last.op = "ExpiresAt"
    /\ DOMAIN claims = {"iss", "exp"}
    /\ claims = claims0
    /\ last.result.unix = [neg |-> FALSE, mag |-> <<1,7,0,0,0,0,0,0,0,0>>]
====
